---------------------------- MODULE Spec2Model ----------------------------
(***************************************************************************)
(* Model of bartseq/read_tagger/__init__.py: the barcode pattern index     *)
(* (get_mismatches, get_all_barcodes), the construction of a ReadTagger    *)
(* (get_tagger, ReadTagger.__init__) and the per-read classification       *)
(* (search_barcode, tag_read, PREDS).                                      *)
(*                                                                         *)
(* A Python str is a sequence of one-character strings, "AT" being         *)
(* <<"A", "T">> and "" being <<>>.  Offsets into a read are 0-based and    *)
(* half-open, as in the source.  A Python dict whose key order matters is  *)
(* a sequence of <<key, value>> pairs in insertion order; a dict that is   *)
(* only looked up is a function.  A tuple is a tuple.                      *)
(***************************************************************************)
EXTENDS Integers, Sequences, FiniteSets, TLC

(***************************************************************************)
(* Bounds of the model.                                                    *)
(***************************************************************************)
\* most barcodes in a source of the index specification
MaxBarcodes == 3
\* longest read handed to tag_read (the read of scenario 3 apart)
MaxReadLen == 3
\* most tag_read calls on one tagger
MaxCalls == 2

(***************************************************************************)
(* Python values.                                                          *)
(***************************************************************************)
\* Python's None where a str is optional; no str of the model equals it.
None == <<"None">>

\* Truth value of an Optional[str]: None and "" are falsy.
truthy(s) == s /= None /\ s /= <<>>

Min(a, b) == IF a <= b THEN a ELSE b
Max(a, b) == IF a >= b THEN a ELSE b

\* A slice index clamped into 0..n, negative indices counting from the end.
slice_index(i, n) == IF i < 0 THEN Max(i + n, 0) ELSE Min(i, n)

\* s[lo:hi]
slice(s, lo, hi) ==
    LET a == slice_index(lo, Len(s))
        b == slice_index(hi, Len(s))
    IN  IF a >= b THEN <<>> ELSE SubSeq(s, a + 1, b)

\* s[lo:]
slice_from(s, lo) == slice(s, lo, Len(s))

\* s[:hi]
slice_to(s, hi) == slice(s, 0, hi)

\* d[k] = v on an insertion-ordered dict: a known key keeps its place.
dict_set(d, k, v) ==
    IF \E i \in 1..Len(d) : d[i][1] = k
    THEN [i \in 1..Len(d) |-> IF d[i][1] = k THEN <<k, v>> ELSE d[i]]
    ELSE Append(d, <<k, v>>)

\* d.get(k)
dict_get(d, k) ==
    IF \E i \in 1..Len(d) : d[i][1] = k
    THEN d[CHOOSE i \in 1..Len(d) : d[i][1] = k][2]
    ELSE None

\* d.keys(), in insertion order
dict_keys(d) == [i \in 1..Len(d) |-> d[i][1]]

\* {bc: id_ for id_, bc in id_to_bc}
RECURSIVE dict_comprehension(_, _)
dict_comprehension(id_to_bc, k) ==
    IF k = 0 THEN <<>>
    ELSE dict_set(dict_comprehension(id_to_bc, k - 1), id_to_bc[k][2], id_to_bc[k][1])

(***************************************************************************)
(* get_mismatches                                                          *)
(***************************************************************************)
BASES == {"A", "T", "G", "C"}

\* The orders in which a set of four one-character strings can be iterated.
BasesOrders ==
    {o \in [1..4 -> BASES] : \A i, j \in 1..4 : i /= j => o[i] /= o[j]}

\* BASES - {barcode[i]}, iterated in the order `order`
bases_without(base, order) == SelectSeq(order, LAMBDA b : b /= base)

\* f'{barcode[:i]}{mismatch}{barcode[i+1:]}'  (i is 0-based)
substitute(barcode, i, mismatch) ==
    slice_to(barcode, i) \o <<mismatch>> \o slice_from(barcode, i + 1)

\* the patterns the two nested loops yield for positions i, i+1, ...
RECURSIVE substitutions(_, _, _)
substitutions(barcode, i, order) ==
    IF i >= Len(barcode) THEN <<>>
    ELSE LET others == bases_without(barcode[i + 1], order)
         IN  [k \in 1..Len(others) |-> substitute(barcode, i, others[k])]
             \o substitutions(barcode, i + 1, order)

\* The generator: the patterns it yields, in order, and whether it then
\* raises instead of finishing.
get_mismatches(barcode, max_mm, order) ==
    [ yields |-> <<barcode>> \o
                 (IF max_mm = 1 THEN substitutions(barcode, 0, order) ELSE <<>>),
      raises |-> max_mm /= 1 ]

(***************************************************************************)
(* get_all_barcodes                                                        *)
(***************************************************************************)
\* found.get(pattern)
found_get(found, pattern) ==
    IF pattern \in DOMAIN found THEN found[pattern] ELSE None

\* found[pattern] = barcode
found_set(found, pattern, barcode) ==
    [p \in DOMAIN found \cup {pattern} |->
        IF p = pattern THEN barcode ELSE found[p]]

\* record_collision with only the pair (previous, current) added
record_collision_one_way(blacklist, pattern, previous_barcode, barcode) ==
    LET bl_item == IF pattern \in DOMAIN blacklist THEN blacklist[pattern] ELSE {}
    IN  [p \in DOMAIN blacklist \cup {pattern} |->
            IF p = pattern
            THEN bl_item \cup {<<previous_barcode, barcode>>}
            ELSE blacklist[p]]

\* blacklist.setdefault(pattern, set()), then the two bl_item.add calls
record_collision(blacklist, pattern, previous_barcode, barcode) ==
    LET bl_item == IF pattern \in DOMAIN blacklist THEN blacklist[pattern] ELSE {}
    IN  [p \in DOMAIN blacklist \cup {pattern} |->
            IF p = pattern
            THEN bl_item \cup {<<previous_barcode, barcode>>,
                               <<barcode, previous_barcode>>}
            ELSE blacklist[p]]

\* claim_pattern without the look-up of a previous claim
claim_pattern_unchecked(st, pattern, barcode) ==
    [ found     |-> found_set(st.found, pattern, barcode),
      blacklist |-> st.blacklist ]

\* The body of the inner loop for one pattern.
claim_pattern(st, pattern, barcode) ==
    LET previous_barcode == found_get(st.found, pattern)
    IN  [ found     |-> found_set(st.found, pattern, barcode),
          blacklist |-> IF truthy(previous_barcode)
                        THEN record_collision(st.blacklist, pattern,
                                              previous_barcode, barcode)
                        ELSE st.blacklist ]

\* The inner loop over the first k patterns the generator yields.
RECURSIVE claim_patterns(_, _, _, _)
claim_patterns(st, patterns, k, barcode) ==
    IF k = 0 THEN st
    ELSE claim_pattern(claim_patterns(st, patterns, k - 1, barcode),
                       patterns[k], barcode)

\* remove_blacklisted without the deletions
keep_blacklisted(found, blacklist) == found

\* for pattern in blacklist: del found[pattern]
remove_blacklisted(found, blacklist) ==
    [p \in DOMAIN found \ DOMAIN blacklist |-> found[p]]

\* The outer loop from barcode number k on; a generator that raises ends
\* the call after the patterns it yielded were processed.
RECURSIVE claim_barcodes(_, _, _, _, _)
claim_barcodes(st, barcodes, k, max_mm, order) ==
    IF k > Len(barcodes)
    THEN [ found |-> st.found, blacklist |-> st.blacklist, raised |-> FALSE ]
    ELSE LET gen == get_mismatches(barcodes[k], max_mm, order)
             nxt == claim_patterns(st, gen.yields, Len(gen.yields), barcodes[k])
         IN  IF gen.raises
             THEN [ found |-> nxt.found, blacklist |-> nxt.blacklist,
                    raised |-> TRUE ]
             ELSE claim_barcodes(nxt, barcodes, k + 1, max_mm, order)

\* The call: what it returns (found, blacklist), or that it raised.
get_all_barcodes(barcodes, max_mm, order) ==
    LET looped == claim_barcodes([found |-> <<>>, blacklist |-> <<>>],
                                 barcodes, 1, max_mm, order)
    IN  IF looped.raised
        THEN looped
        ELSE [ found     |-> remove_blacklisted(looped.found, looped.blacklist),
               blacklist |-> looped.blacklist,
               raised    |-> FALSE ]


(***************************************************************************)
(* TaggedRead and PREDS                                                    *)
(***************************************************************************)
TaggedRead(header, qual, len_primer_, junk, barcode, linker, amplicon, other_barcodes, barcode_mismatch) ==
    [ header |-> header, qual |-> qual, len_primer |-> len_primer_,
      junk |-> junk, barcode |-> barcode, linker |-> linker,
      amplicon |-> amplicon, other_barcodes |-> other_barcodes,
      barcode_mismatch |-> barcode_mismatch ]

has_multiple_barcodes(read) == Cardinality(read.other_barcodes) > 0

\* is_just_primer without the test for a barcode
is_just_primer_any(read) == Len(read.amplicon) <= read.len_primer

is_just_primer(read) ==
    read.barcode /= None /\ Len(read.amplicon) <= read.len_primer

\* is_regular without the test for a barcode
is_regular_any(read) == ~is_just_primer(read)

\* `self.barcode and not self.is_just_primer`, taken as a truth value
is_regular(read) == truthy(read.barcode) /\ ~is_just_primer(read)

StatNames == {"n_only_primer", "n_multiple_bcs", "n_no_barcode",
              "n_barcode_mismatch", "n_junk", "n_regular"}

\* PREDS[name](read), taken as a truth value
PREDS(name, read) ==
    CASE name = "n_only_primer"      -> is_just_primer(read)
      [] name = "n_multiple_bcs"     -> has_multiple_barcodes(read)
      [] name = "n_no_barcode"       -> ~truthy(read.barcode)
      [] name = "n_barcode_mismatch" -> read.barcode_mismatch
      [] name = "n_junk"             -> truthy(read.junk)
      [] name = "n_regular"          -> is_regular(read)

\* self.stats when use_stats is false
no_stats == <<>>

\* the dict of six zero counters
zero_stats == [name \in StatNames |-> 0]

\* the loop over PREDS.items() at the end of tag_read
update_stats(stats_, read) ==
    IF stats_ /= no_stats
    THEN [name \in DOMAIN stats_ |->
            IF PREDS(name, read) THEN stats_[name] + 1 ELSE stats_[name]]
    ELSE stats_

(***************************************************************************)
(* ReadTagger.search_barcode                                               *)
(***************************************************************************)
\* What the automaton reports at one end index: the words that end there,
\* the longest first, each with its stored value.
RECURSIVE words_ending_at(_, _, _, _)
words_ending_at(words, read, end_index, len) ==
    IF len = 0 THEN <<>>
    ELSE LET word == SubSeq(read, end_index - len + 2, end_index + 1)
         IN  (IF word \in DOMAIN words
              THEN << <<end_index, words[word]>> >> ELSE <<>>)
             \o words_ending_at(words, read, end_index, len - 1)

\* self.automaton.iter(read): (end_index, value) for every occurrence of a
\* word, by ascending end index.
RECURSIVE automaton_iter(_, _, _)
automaton_iter(words, read, end_index) ==
    IF end_index >= Len(read) THEN <<>>
    ELSE words_ending_at(words, read, end_index, end_index + 1)
         \o automaton_iter(words, read, end_index + 1)

\* match_span with the start one too far left
match_span_short(end, barcode) == <<end - Len(barcode), end + 1, barcode>>

\* start = end - len(barcode) + 1; yield start, end + 1, barcode
match_span(end, barcode) == <<end - Len(barcode) + 1, end + 1, barcode>>

search_barcode(words, read) ==
    LET hits == automaton_iter(words, read, 0)
    IN  [k \in 1..Len(hits) |-> match_span(hits[k][1], hits[k][2])]

(***************************************************************************)
(* ReadTagger.tag_read                                                     *)
(***************************************************************************)
\* OrderedDict((match, None) for match in ...): first occurrences, in order
RECURSIVE ordered_set(_, _)
ordered_set(items, k) ==
    IF k = 0 THEN <<>>
    ELSE LET before == ordered_set(items, k - 1)
         IN  IF \E j \in 1..Len(before) : before[j] = items[k]
             THEN before ELSE Append(before, items[k])

\* linker_segment with the linker length taken as the end offset
linker_until_length(seq_read, bc_end, len_linker_) ==
    slice(seq_read, bc_end, len_linker_)

\* seq_read[bc_end:linker_end], linker_end being None when bc_end is 0
linker_segment(seq_read, bc_end, len_linker_) ==
    IF bc_end /= 0
    THEN slice(seq_read, bc_end, bc_end + len_linker_)
    ELSE slice_from(seq_read, bc_end)

\* amplicon_segment that starts at the end of the barcode
amplicon_after_barcode(seq_read, bc_end, len_linker_) ==
    slice_from(seq_read, bc_end)

\* seq_read[linker_end:], linker_end being None when bc_end is 0
amplicon_segment(seq_read, bc_end, len_linker_) ==
    IF bc_end /= 0
    THEN slice_from(seq_read, bc_end + len_linker_)
    ELSE slice_from(seq_read, 0)

\* matches = OrderedDict(... for match in self.search_barcode(seq_read)),
\* as the sequence of its keys
tag_read_matches(words, seq_read_) ==
    LET yielded == search_barcode(words, seq_read_)
    IN  ordered_set(yielded, Len(yielded))

\* The TaggedRead that tag_read builds from its matches and returns.
tag_read(matches_, bc_to_id_, len_linker_, len_primer_, header, seq_read_, seq_qual) ==
    LET any       == Len(matches_) > 0
        bc_start  == matches_[1][1]
        bc_end    == matches_[1][2]
        barcode   == IF any THEN matches_[1][3] ELSE None
        bc_id     == dict_get(bc_to_id_, barcode)
        other_barcodes ==
            {dict_get(bc_to_id_, matches_[k][3]) : k \in 2..Len(matches_)} \ {bc_id}
    IN  IF barcode /= None
        THEN TaggedRead(header, seq_qual, len_primer_,
                 IF slice_to(seq_read_, bc_start) /= <<>>
                 THEN slice_to(seq_read_, bc_start) ELSE None,
                 bc_id,
                 linker_segment(seq_read_, bc_end, len_linker_),
                 amplicon_segment(seq_read_, bc_end, len_linker_),
                 other_barcodes,
                 slice(seq_read_, bc_start, bc_end) /= barcode)
        ELSE TaggedRead(header, seq_qual, len_primer_,
                 None, bc_id, None, seq_read_, other_barcodes, FALSE)


(***************************************************************************)
(* Inputs                                                                  *)
(***************************************************************************)
\* the strings over `alphabet` of length lo..hi
Strings(alphabet, lo, hi) ==
    UNION {[1..n -> alphabet] : n \in lo..hi}

\* Identifiers, unique within a run: the k-th barcode of a source gets the
\* k-th of these, or the empty identifier in the first place.
IdNames == <<"X", "Y", "Z", "W", "V">>
Identifiers(first_empty) ==
    [k \in 1..Len(IdNames) |-> IF k = 1 /\ first_empty THEN <<>> ELSE <<IdNames[k]>>]

\* the barcode sources [(id_, bc), ...] of up to `most` barcodes of `pool`
Sources(pool, most, first_empty) ==
    UNION {{[k \in 1..n |-> <<Identifiers(first_empty)[k], bcs[k]>>] :
                bcs \in [1..n -> pool]} : n \in 0..most}

\* barcode sequences of the index specification and of the tagging one
IndexBarcodes == Strings({"A", "T"}, 1, 2)
TagBarcodes == {<<"A">>, <<"A", "A">>, <<"A", "C">>, <<"C", "A">>}
LinkerLengths == {0, 1}
PrimerLengths == {0, 1}

\* mismatch budgets a caller passes: 0 .. MaxMaxMm
MaxMaxMm == 2

\* reads handed to tag_read
Scenario3Read == <<"G","G","A","A","A","A","C","C","G","G","T","T">>
Scenario3Source == << << <<"B","C","1">>, <<"A","A","A","A">> >> >>
Reads == Strings({"A", "C"}, 0, MaxReadLen) \cup {Scenario3Read}
Header == <<"@", "r">>
Quality(read) == [i \in 1..Len(read) |-> "I"]

(***************************************************************************)
(* State                                                                   *)
(***************************************************************************)
VARIABLES
    id_to_bc,     \* the caller's barcode source, [(id_, bc), ...]
    len_linker,   \* the caller's linker length
    len_primer,   \* the caller's primer length
    pc,           \* "start", "ready" (a tagger was returned) or "error"
    max_mm,       \* the budget __init__ was called with
    bc_to_id,     \* self.bc_to_id
    automaton,    \* the words of self.automaton, pattern -> barcode
    blacklist,    \* self.blacklist
    stats,        \* self.stats
    n_calls,      \* tag_read calls made on the tagger
    seq_read,     \* the read of the last tag_read call
    matches,      \* the matches of the last tag_read call, in order
    result        \* the TaggedRead the last tag_read call returned

vars == << id_to_bc, len_linker, len_primer, pc, max_mm, bc_to_id,
           automaton, blacklist, stats, n_calls, seq_read, matches, result >>

\* before any call: the constructor's defaults, no tagger, no result
Unbuilt ==
    /\ pc = "start"
    /\ max_mm = 1
    /\ bc_to_id = <<>>
    /\ automaton = <<>>
    /\ blacklist = <<>>
    /\ stats = no_stats
    /\ n_calls = 0
    /\ seq_read = <<>>
    /\ matches = <<>>
    /\ result = TaggedRead(None, None, 0, None, None, None, <<>>, {}, FALSE)

\* Tagging: few barcodes, small lengths, and the configuration of scenario 3.
Init ==
    /\ \/ /\ id_to_bc \in Sources(TagBarcodes, 2, FALSE)
                          \cup Sources(TagBarcodes, 1, TRUE)
          /\ len_linker \in LinkerLengths
          /\ len_primer \in PrimerLengths
       \/ /\ id_to_bc = Scenario3Source
          /\ len_linker = 2
          /\ len_primer = 4
    /\ Unbuilt

\* Index construction: more barcodes, no reads.
InitIndex ==
    /\ id_to_bc \in Sources(IndexBarcodes, MaxBarcodes, FALSE)
    /\ len_linker = 0
    /\ len_primer = 0
    /\ Unbuilt

(***************************************************************************)
(* Actions                                                                 *)
(***************************************************************************)
\* ReadTagger.__init__(bc_to_id, len_linker, len_primer, max_mm=, use_stats=),
\* BASES being iterated in the order `order`.
ReadTagger_init(bc_to_id_, max_mm_, use_stats, order) ==
    LET built == get_all_barcodes(dict_keys(bc_to_id_), max_mm_, order)
    IN  /\ bc_to_id' = bc_to_id_
        /\ max_mm' = max_mm_
        /\ stats' = IF ~use_stats THEN no_stats ELSE zero_stats
        /\ IF built.raised
           THEN /\ pc' = "error"
                /\ UNCHANGED << automaton, blacklist >>
           ELSE /\ pc' = "ready"
                /\ automaton' = built.found
                /\ blacklist' = built.blacklist
        /\ UNCHANGED << id_to_bc, len_linker, len_primer, n_calls, seq_read, matches,
                        result >>

\* get_tagger(id_to_bc, len_linker, len_primer)
get_tagger ==
    /\ pc = "start"
    /\ \E order \in BasesOrders :
          ReadTagger_init(dict_comprehension(id_to_bc, Len(id_to_bc)), 1, TRUE, order)

\* A caller that builds the dict itself and calls the constructor.
new_ReadTagger ==
    /\ pc = "start"
    /\ \E max_mm_ \in 0..MaxMaxMm, use_stats \in BOOLEAN, order \in BasesOrders :
          ReadTagger_init(dict_comprehension(id_to_bc, Len(id_to_bc)),
                          max_mm_, use_stats, order)

\* tagger.tag_read(header, seq_read, seq_qual), returning a TaggedRead.
\* Automaton.iter scans an automaton of at least one word: make_automaton
\* leaves a trie without words unconverted, and iter then raises instead of
\* yielding, so that tag_read returns nothing and counts nothing.
call_tag_read ==
    /\ pc = "ready"
    /\ DOMAIN automaton /= {}
    /\ n_calls < MaxCalls
    /\ \E read \in Reads :
          LET found  == tag_read_matches(automaton, read)
              tagged == tag_read(found, bc_to_id, len_linker, len_primer,
                                 Header, read, Quality(read))
          IN  /\ seq_read' = read
              /\ matches' = found
              /\ result' = tagged
              /\ stats' = update_stats(stats, tagged)
              /\ n_calls' = n_calls + 1
    /\ UNCHANGED << id_to_bc, len_linker, len_primer, pc, max_mm, bc_to_id,
                    automaton, blacklist >>

Next == get_tagger \/ new_ReadTagger \/ call_tag_read

NextIndex == get_tagger \/ new_ReadTagger

Spec == Init /\ [][Next]_vars

SpecIndex == InitIndex /\ [][NextIndex]_vars


(***************************************************************************)
(* Vocabulary of the properties, stated without the operators above.       *)
(***************************************************************************)
Range(f) == {f[i] : i \in DOMAIN f}

\* a and b have the same length and differ in at most one position
within_one(a, b) ==
    /\ Len(a) = Len(b)
    /\ Cardinality({i \in 1..Len(a) : a[i] /= b[i]}) <= 1

\* the patterns the expansion of `barcode` produces with budget 1
Expansion(barcode) ==
    {P \in [1..Len(barcode) -> BASES] : within_one(barcode, P)}

\* the barcodes of the tagger, in the order get_all_barcodes processed them
Processed == dict_keys(bc_to_id)

\* those of them that produce the pattern P, in that order
Producers(P) == SelectSeq(Processed, LAMBDA b : P \in Expansion(b))

\* the sequence `items` in every order
Orders(items) ==
    {[k \in 1..Len(items) |-> items[p[k]]] :
        p \in {q \in [1..Len(items) -> 1..Len(items)] :
                  \A i, j \in 1..Len(items) : i /= j => q[i] /= q[j]}}

\* P occurs in read at the 0-based offset i
occurs_at(P, read, i) ==
    /\ i + Len(P) <= Len(read)
    /\ SubSeq(read, i + 1, i + Len(P)) = P

\* some word of the automaton occurs in read
some_pattern_occurs(read) ==
    \E P \in DOMAIN automaton : \E i \in 0..Len(read) : occurs_at(P, read, i)

Built == pc = "ready" /\ max_mm = 1

(***************************************************************************)
(* Properties of the index (get_all_barcodes), under SpecIndex             *)
(***************************************************************************)
\* C1: with budget 1 the keys of the returned pattern map and of the
\* blacklist are disjoint; every key P of the map is within one substitution
\* of exactly one barcode, the one P maps to; and a pattern that two different
\* barcodes produce is no key of the map and is a key of the blacklist.
C1_MapKeysUnambiguous ==
    Built =>
        /\ DOMAIN automaton \cap DOMAIN blacklist = {}
        /\ \A P \in DOMAIN automaton :
              {b \in Range(Processed) : within_one(b, P)} = {automaton[P]}
        /\ \A a, b \in Range(Processed) :
              a /= b => \A P \in Expansion(a) \cap Expansion(b) :
                            P \notin DOMAIN automaton /\ P \in DOMAIN blacklist

\* a pattern of three barcodes is blacklisted while other patterns survive
C1_Witness ==
    /\ Built
    /\ DOMAIN automaton /= {}
    /\ \E P \in DOMAIN blacklist : Len(Producers(P)) >= 3

\* C6 as claimed: index construction ends in an error exactly when the
\* budget is outside {0, 1}; with budget 0 it completes and the pattern map
\* holds exactly the barcode sequences, each mapped to itself; with budget 1
\* it completes.  (Stated for a tagger of at least one barcode.)
C6_ErrorIffBudgetOutside01 ==
    (pc /= "start" /\ Len(bc_to_id) > 0) =>
        /\ pc = "error" <=> max_mm \notin {0, 1}
        /\ max_mm = 0 =>
              /\ pc = "ready"
              /\ DOMAIN automaton = Range(Processed)
              /\ \A b \in DOMAIN automaton : automaton[b] = b
        /\ max_mm = 1 => pc = "ready"

\* C7 as claimed: a barcode sequence that the source gives under two
\* different identifiers is a key of the blacklist, with a pair recorded,
\* and no key of the pattern map.
C7_DuplicateSequenceBlacklisted ==
    Built =>
        \A i, j \in 1..Len(id_to_bc) :
            (i /= j /\ id_to_bc[i][2] = id_to_bc[j][2]
                    /\ id_to_bc[i][1] /= id_to_bc[j][1]) =>
                /\ id_to_bc[i][2] \in DOMAIN blacklist
                /\ id_to_bc[i][2] \notin DOMAIN automaton

\* C8: whatever the order in which the barcodes are processed, the returned
\* pattern map is the same and the blacklist has the same keys.
C8_OrderIndependent ==
    Built =>
        \A other \in Orders(Processed) :
            LET again == get_all_barcodes(other, 1, <<"A", "T", "G", "C">>)
            IN  /\ ~again.raised
                /\ again.found = automaton
                /\ DOMAIN again.blacklist = DOMAIN blacklist

\* another order of the same barcodes records other pairs
C8_Witness ==
    /\ Built
    /\ DOMAIN automaton /= {}
    /\ \E other \in Orders(Processed) :
          get_all_barcodes(other, 1, <<"A", "T", "G", "C">>).blacklist /= blacklist

\* C9 as claimed: under a blacklisted pattern P every two different barcodes
\* that produce P are recorded in both orders, and every recorded pair is two
\* different barcodes that both produce P.
C9_AllPairsRecorded ==
    Built =>
        \A P \in DOMAIN blacklist :
            /\ \A A, B \in Range(Producers(P)) :
                  A /= B => <<A, B>> \in blacklist[P] /\ <<B, A>> \in blacklist[P]
            /\ \A pair \in blacklist[P] :
                  /\ pair[1] /= pair[2]
                  /\ pair[1] \in Range(Producers(P))
                  /\ pair[2] \in Range(Producers(P))

\* C9, amended: under a blacklisted pattern P the recorded pairs are exactly
\* (A, B) and (B, A) for the barcodes A, B that follow one another among the
\* producers of P in processing order; two producers are always recorded in
\* both orders, the first and third of three are not.
C9_ConsecutivePairsRecorded ==
    Built =>
        \A P \in DOMAIN blacklist :
            LET prods == Producers(P)
            IN  /\ Len(prods) >= 2
                /\ blacklist[P] =
                      UNION {{<<prods[k], prods[k + 1]>>, <<prods[k + 1], prods[k]>>} :
                                k \in 1..(Len(prods) - 1)}

\* three barcodes produce one blacklisted pattern
C9_Witness ==
    /\ Built
    /\ \E P \in DOMAIN blacklist :
          /\ Len(Producers(P)) = 3
          /\ Cardinality(blacklist[P]) = 4


(***************************************************************************)
(* Properties of tagging (search_barcode, tag_read), under Spec            *)
(***************************************************************************)
\* C2: for every key P of the pattern map that occurs in the read at offset
\* i, the matches hold (i, i + len(P), the barcode P maps to); the canonical
\* barcode, from whose length the start is computed, is as long as P.
C2_OccurrenceIsMatched ==
    n_calls > 0 =>
        \A P \in DOMAIN automaton :
            /\ Len(automaton[P]) = Len(P)
            /\ \A i \in 0..Len(seq_read) :
                  occurs_at(P, seq_read, i) =>
                      <<i, i + Len(P), automaton[P]>> \in Range(matches)

\* a one-mismatch pattern occurs after the start of the read
C2_Witness ==
    /\ n_calls > 0
    /\ \E P \in DOMAIN automaton :
          /\ P /= automaton[P]
          /\ \E i \in 1..Len(seq_read) : occurs_at(P, seq_read, i)

\* the segments of a read around the primary match [s, e)
Segmented ==
    LET s   == matches[1][1]
        e   == matches[1][2]
        n   == Len(seq_read)
        cut == Min(e + len_linker, n)
    IN  /\ result.junk = (IF s = 0 THEN None ELSE SubSeq(seq_read, 1, s))
        /\ result.linker = SubSeq(seq_read, e + 1, cut)
        /\ result.amplicon = SubSeq(seq_read, cut + 1, n)
        /\ result.barcode_mismatch = (SubSeq(seq_read, s + 1, e) /= matches[1][3])
        /\ SubSeq(seq_read, 1, s) \o SubSeq(seq_read, s + 1, e)
              \o result.linker \o result.amplicon = seq_read

\* the tagger and the read of scenario 3
Scenario3 ==
    /\ n_calls > 0
    /\ id_to_bc = Scenario3Source
    /\ len_linker = 2
    /\ seq_read = Scenario3Read

\* C3 as claimed: with a primary match [s, e) the result has
\* junk = read[0:s] (None when s = 0), linker = read[e : min(e+L, n)],
\* amplicon = read[min(e+L, n) : n] and barcode_mismatch = (read[s:e] is not
\* the canonical barcode), the four pieces making up the read; and for the
\* read GGAAAACCGGTT, barcode AAAA, L = 2 the result is junk GG, linker CC,
\* amplicon GGTT, no mismatch.
C3_SegmentsAndScenario ==
    (n_calls > 0 /\ Len(matches) > 0) =>
        /\ Segmented
        /\ Scenario3 =>
              /\ result.junk = <<"G", "G">>
              /\ result.linker = <<"C", "C">>
              /\ result.amplicon = <<"G", "G", "T", "T">>
              /\ result.barcode_mismatch = FALSE

\* C3, amended: the same segmentation; for the read GGAAAACCGGTT, barcode
\* AAAA, L = 2 the primary match is the one-mismatch pattern GAAA at [1, 5),
\* which ends first, and the result is junk G, linker AC, amplicon CGGTT,
\* mismatch true.
C3_SegmentsAndScenarioFirstEnding ==
    (n_calls > 0 /\ Len(matches) > 0) =>
        /\ Segmented
        /\ Scenario3 =>
              /\ matches[1] = <<1, 5, <<"A", "A", "A", "A">> >>
              /\ result.junk = <<"G">>
              /\ result.linker = <<"A", "C">>
              /\ result.amplicon = <<"C", "G", "G", "T", "T">>
              /\ result.barcode_mismatch = TRUE

\* the read of scenario 3 was tagged by the tagger of scenario 3
C3_Witness == Scenario3 /\ Len(matches) > 0

\* C4 as claimed: the amplicon of a non-empty read is never empty.
C4_AmpliconNeverEmpty ==
    (n_calls > 0 /\ seq_read /= <<>>) => result.amplicon /= <<>>

\* C4, amended: the amplicon of a non-empty read is non-empty when no barcode
\* was found, and with a primary match ending at e exactly when the read is
\* longer than e + L; a read that ends inside or directly after the barcode
\* or the linker window has the empty amplicon.
C4_AmpliconEmptyIffReadEndsInLinker ==
    (n_calls > 0 /\ seq_read /= <<>>) =>
        (result.amplicon /= <<>>
            <=> (Len(matches) = 0 \/ Len(seq_read) > matches[1][2] + len_linker))

\* a read that ends inside the linker window, and one that goes beyond it
C4_Witness ==
    /\ n_calls > 0
    /\ Len(matches) > 0
    /\ len_linker = 1
    /\ Len(seq_read) = matches[1][2] + len_linker
    /\ result.amplicon = <<>>

IdentifiersNonEmpty == \A k \in 1..Len(bc_to_id) : bc_to_id[k][2] /= <<>>

Counting == pc = "ready" /\ stats /= no_stats /\ IdentifiersNonEmpty

=============================================================================
